---- MODULE Spec2Model ----
\* Model of src/src/app.ts: the observable project store (ProjectState),
\* the list components subscribed to it (ProjectList) and the validator
\* (validatedInput).
EXTENDS Integers, Sequences, FiniteSets, TLC

\* ---------------------------------------------------------------- bounds
MaxProjects == 2
MaxListeners == 2
NumRandom == 2
MaxLen == 2
MaxNum == 2

\* ------------------------------------------------------------- constants
Active == "Active"
Finished == "Finished"
ProjectStatus == {Active, Finished}

\* Values Math.random() can return, and the arguments the store is called with.
RandomValues == 1..NumRandom
TitleArgs == {<<"t">>}
DescriptionArgs == {<<"d">>}
PeopleArgs == {1}
ListTypes == {"active", "finished"}

VARIABLES
  heap,       \* Project objects, by reference (allocation order)
  projects,   \* ProjectState.projects: array of references into heap
  listeners,  \* State.listeners: array of listener closures (the list each closes over)
  lists,      \* the ProjectList components: type and assignedProjects
  notified,   \* the listener invocations made by the last store call, in order
  lastCall,   \* the last store call and its arguments
  repeated,   \* the last store call repeated the call before it
  held,       \* the first array ever handed to a listener, and what it showed then
  rule,       \* validatedInput: the argument
  result,     \* validatedInput: the returned value
  form,       \* ProjectForm: the values of titlEl, descriptionEl and peopleEl
  alerts,     \* the alert() calls made by the last event handler, in order
  drag,       \* the drag in progress: its DataTransfer and where it hovers
  droppable,  \* per ProjectList: its <ul> carries the class 'droppable'
  lastEvent   \* the last DOM event handled

vars == <<heap, projects, listeners, lists, notified, lastCall, repeated, held, rule, result,
          form, alerts, drag, droppable, lastEvent>>
uiVars == <<form, alerts, drag, droppable, lastEvent>>

\* ------------------------------------------------------------ Project
Project(id, title, description, people, status) ==
  [id |-> id, title |-> title, description |-> description,
   people |-> people, status |-> status]

\* Number.prototype.toString on a value of Math.random(): "0." and digits.
NumberToString(r) == <<"0", ".", r>>

ProjectIds == {NumberToString(r) : r \in RandomValues}

\* Array.prototype.slice(): a new array holding the same element references.
slice(arr) == SubSeq(arr, 1, Len(arr))

\* Faulty variant of find: a miss falls back to the first element instead of undefined.
find_firstOnMiss(ps, h, projectId) ==
  IF \E i \in 1..Len(ps) : h[ps[i]].id = projectId
  THEN ps[CHOOSE i \in 1..Len(ps) :
            /\ h[ps[i]].id = projectId
            /\ \A j \in 1..(i - 1) : h[ps[j]].id # projectId]
  ELSE IF Len(ps) > 0 THEN ps[1] ELSE 0

\* Array.prototype.find with prj.id === projectId: the reference of the first
\* match, 0 (undefined) when there is none.
find(ps, h, projectId) ==
  IF \E i \in 1..Len(ps) : h[ps[i]].id = projectId
  THEN ps[CHOOSE i \in 1..Len(ps) :
            /\ h[ps[i]].id = projectId
            /\ \A j \in 1..(i - 1) : h[ps[j]].id # projectId]
  ELSE 0

\* What an array of references shows to whoever reads it through heap h.
Deref(items, h) == [i \in 1..Len(items) |-> h[items[i]]]

\* ------------------------------------------------------------ ProjectList
StatusOf(type) == IF type = "active" THEN Active ELSE Finished

\* Faulty variant of listenerFn: the list keeps every project, whatever its status.
listenerFn_noFilter(list, items, h) ==
  [list EXCEPT !.assignedProjects = items]

\* The listener registered by ProjectList.config.
listenerFn(list, items, h) ==
  [list EXCEPT !.assignedProjects =
     SelectSeq(items, LAMBDA p : h[p].status = StatusOf(list.type))]

\* ------------------------------------------------------------ State
addListener(fn) == listeners' = Append(listeners, fn)

RECURSIVE updateListenersFrom(_, _, _, _, _)
updateListenersFrom(i, lsnrs, ps, h, acc) ==
  IF i > Len(lsnrs) THEN acc
  ELSE LET fn == lsnrs[i]
           items == slice(ps)
       IN updateListenersFrom(i + 1, lsnrs, ps, h,
            [lists |-> [acc.lists EXCEPT ![fn] = listenerFn(@, items, h)],
             notified |-> Append(acc.notified, [listener |-> fn, items |-> items])])

RECURSIVE updateListenersDownFrom(_, _, _, _, _)
updateListenersDownFrom(i, lsnrs, ps, h, acc) ==
  IF i < 1 THEN acc
  ELSE LET fn == lsnrs[i]
           items == slice(ps)
       IN updateListenersDownFrom(i - 1, lsnrs, ps, h,
            [lists |-> [acc.lists EXCEPT ![fn] = listenerFn(@, items, h)],
             notified |-> Append(acc.notified, [listener |-> fn, items |-> items])])

\* Faulty variant of updateListeners: the listeners are called last-registered first.
updateListeners_reversed(lsnrs, ps, h, ls) ==
  updateListenersDownFrom(Len(lsnrs), lsnrs, ps, h, [lists |-> ls, notified |-> <<>>])

updateListeners(lsnrs, ps, h, ls) ==
  updateListenersFrom(1, lsnrs, ps, h, [lists |-> ls, notified |-> <<>>])

NoSnapshot == [set |-> FALSE, items |-> <<>>, seen |-> <<>>]

\* The first array handed to a listener is kept, with what it showed.
Hold(round, h) ==
  IF held.set \/ round = <<>> THEN held
  ELSE [set |-> TRUE, items |-> round[1].items, seen |-> Deref(round[1].items, h)]

Called(call) ==
  /\ lastCall' = call
  /\ repeated' = (call = lastCall)

\* ------------------------------------------------------------ actions
NewProjectList(type) ==
  /\ Len(lists) < MaxListeners
  /\ lists' = Append(lists, [type |-> type, assignedProjects |-> <<>>])
  /\ addListener(Len(lists) + 1)
  /\ notified' = <<>>
  /\ Called([op |-> "addListener", type |-> type])
  /\ UNCHANGED <<heap, projects, held, rule, result>>
  /\ UNCHANGED uiVars

\* Faulty variant of addProject: unshift instead of push.
addProject_unshift(title, description, numOfPeople) ==
  /\ Len(projects) < MaxProjects
  /\ \E r \in RandomValues :
       LET newProject == Project(NumberToString(r), title, description,
                                 numOfPeople, Active)
           ref == Len(heap) + 1
           h == Append(heap, newProject)
           ps == <<ref>> \o projects
           round == updateListeners(listeners, ps, h, lists)
       IN /\ heap' = h
          /\ projects' = ps
          /\ lists' = round.lists
          /\ notified' = round.notified
          /\ held' = Hold(round.notified, h)
  /\ Called([op |-> "addProject", title |-> title, description |-> description,
             numOfPeople |-> numOfPeople])
  /\ UNCHANGED <<listeners, rule, result>>

addProject(title, description, numOfPeople) ==
  /\ Len(projects) < MaxProjects
  /\ \E r \in RandomValues :
       LET newProject == Project(NumberToString(r), title, description,
                                 numOfPeople, Active)
           ref == Len(heap) + 1
           h == Append(heap, newProject)
           ps == Append(projects, ref)
           round == updateListeners(listeners, ps, h, lists)
       IN /\ heap' = h
          /\ projects' = ps
          /\ lists' = round.lists
          /\ notified' = round.notified
          /\ held' = Hold(round.notified, h)
  /\ Called([op |-> "addProject", title |-> title, description |-> description,
             numOfPeople |-> numOfPeople])
  /\ UNCHANGED <<listeners, rule, result>>

\* Faulty variant of moveProject: the status is reassigned but updateListeners is not called.
moveProject_noNotify(projectId, newStatus) ==
  /\ LET project == find(projects, heap, projectId)
     IN IF project # 0 /\ heap[project].status # newStatus
        THEN /\ heap' = [heap EXCEPT ![project].status = newStatus]
             /\ notified' = <<>>
             /\ UNCHANGED <<lists, held>>
        ELSE /\ notified' = <<>>
             /\ UNCHANGED <<heap, lists, held>>
  /\ Called([op |-> "moveProject", projectId |-> projectId, newStatus |-> newStatus])
  /\ UNCHANGED <<projects, listeners, rule, result>>

\* Faulty variant of moveProject: the test project.status !== newStatus is dropped.
moveProject_alwaysNotify(projectId, newStatus) ==
  /\ LET project == find(projects, heap, projectId)
     IN IF project # 0
        THEN LET h == [heap EXCEPT ![project].status = newStatus]
                 round == updateListeners(listeners, projects, h, lists)
             IN /\ heap' = h
                /\ lists' = round.lists
                /\ notified' = round.notified
                /\ held' = Hold(round.notified, h)
        ELSE /\ notified' = <<>>
             /\ UNCHANGED <<heap, lists, held>>
  /\ Called([op |-> "moveProject", projectId |-> projectId, newStatus |-> newStatus])
  /\ UNCHANGED <<projects, listeners, rule, result>>

moveProject(projectId, newStatus) ==
  /\ LET project == find(projects, heap, projectId)
     IN IF project # 0 /\ heap[project].status # newStatus
        THEN LET h == [heap EXCEPT ![project].status = newStatus]
                 round == updateListeners(listeners, projects, h, lists)
             IN /\ heap' = h
                /\ lists' = round.lists
                /\ notified' = round.notified
                /\ held' = Hold(round.notified, h)
        ELSE /\ notified' = <<>>
             /\ UNCHANGED <<heap, lists, held>>
  /\ Called([op |-> "moveProject", projectId |-> projectId, newStatus |-> newStatus])
  /\ UNCHANGED <<projects, listeners, rule, result>>

\* ------------------------------------------------------------ validatedInput
Chars == {" ", "a"}
FieldNames == {"Title", "People"}

Str(chars) == [type |-> "string", chars |-> chars]
\* Numbers: an integer num, num + 1/2 when half is set, or NaN.
Num(n) == [type |-> "number", nan |-> FALSE, num |-> n, half |-> FALSE]
Half(n) == [type |-> "number", nan |-> FALSE, num |-> n, half |-> TRUE]
NaN == [type |-> "number", nan |-> TRUE, num |-> 0, half |-> FALSE]

Strings == UNION {[1..n -> Chars] : n \in 0..MaxLen}
Values == {Str(c) : c \in Strings} \cup {Num(n) : n \in -1..(MaxNum + 1)} \cup {NaN}

\* An optional property: absent, or present with one of the given values.
Optional(name, vals) == {<<>>} \cup {name :> x : x \in vals}

With(base, opt) == IF opt = <<>> THEN base ELSE base @@ opt

\* The objects of interface validate.
Rules ==
  {With(With(With(With(With([field |-> f, value |-> v], r), xl), nl), x), n) :
     f \in FieldNames, v \in Values,
     r \in Optional("required", BOOLEAN),
     xl \in Optional("maxLength", 0..(MaxLen + 1)),
     nl \in Optional("minLength", 0..(MaxLen + 1)),
     x \in Optional("max", 0..(MaxNum + 1)),
     n \in Optional("min", 0..(MaxNum + 1))}

\* `x != null` on an optional property.
NotNull(v, name) == name \in DOMAIN v

typeof(v) == v.type

\* ToBoolean: "", 0 and NaN are falsy.
Truthy(v) == IF typeof(v) = "string" THEN Len(v.chars) > 0
             ELSE ~v.nan /\ (v.num # 0 \/ v.half)

DigitChar == <<"0", "1", "2", "3", "4", "5", "6", "7", "8", "9">>

RECURSIVE Digits(_)
Digits(n) ==
  IF n < 10 THEN <<DigitChar[n + 1]>> ELSE Digits(n \div 10) \o <<DigitChar[(n % 10) + 1]>>

\* Object.prototype.toString of a string or a number.
toString(v) ==
  IF typeof(v) = "string" THEN v.chars
  ELSE IF v.nan THEN <<"N", "a", "N">>
  ELSE IF v.num < 0 THEN <<"-">> \o Digits(-v.num)
  ELSE IF v.half THEN Digits(v.num) \o <<".", "5">>
  ELSE Digits(v.num)

RECURSIVE trimStart(_)
trimStart(s) == IF s # <<>> /\ Head(s) = " " THEN trimStart(Tail(s)) ELSE s

RECURSIVE trimEnd(_)
trimEnd(s) ==
  IF s # <<>> /\ s[Len(s)] = " " THEN trimEnd(SubSeq(s, 1, Len(s) - 1)) ELSE s

\* String.prototype.trim
trim(s) == trimEnd(trimStart(s))

\* value <= limit and value >= limit on numbers: false when the value is NaN.
Lte(v, limit) == ~v.nan /\ (IF v.half THEN v.num < limit ELSE v.num <= limit)
Gte(v, limit) == ~v.nan /\ v.num >= limit

\* The template strings of the messages; '' is the empty message.
NoMessage == <<>>
RequiredMessage(field) == <<field, "field is required">>
MaxLengthMessage(field, n) == <<field, "field most not be more than", n, "characters">>
MinLengthMessage(field, n) == <<field, "field most not be less than", n, "characters">>
MaxMessage(field, n) == <<field, "field most not be more than", n, "numbers">>
MinMessage(field, n) == <<field, "field most not be less than", n, "numbers">>

\* One `if` block of validatedInput: when it applies, isValid is and-ed with
\* the check and the message is reassigned from the accumulated isValid.
Check(st, applies, ok, msg) ==
  IF applies
  THEN LET isValid == st.isValid /\ ok
       IN [isValid |-> isValid, message |-> IF ~isValid THEN msg ELSE NoMessage]
  ELSE st

validatedInput(validate) ==
  LET isString == typeof(validate.value) = "string"
      isNumber == typeof(validate.value) = "number"
      s0 == [isValid |-> TRUE, message |-> NoMessage]
      s1 == Check(s0, Truthy(validate.value),
                  Len(trim(toString(validate.value))) # 0,
                  RequiredMessage(validate.field))
      s2 == IF NotNull(validate, "maxLength") /\ isString
            THEN Check(s1, TRUE, Len(validate.value.chars) <= validate.maxLength,
                       MaxLengthMessage(validate.field, validate.maxLength))
            ELSE s1
      s3 == IF NotNull(validate, "minLength") /\ isString
            THEN Check(s2, TRUE, Len(validate.value.chars) >= validate.minLength,
                       MinLengthMessage(validate.field, validate.minLength))
            ELSE s2
      s4 == IF NotNull(validate, "max") /\ isNumber
            THEN Check(s3, TRUE, Lte(validate.value, validate.max),
                       MaxMessage(validate.field, validate.max))
            ELSE s3
      s5 == IF NotNull(validate, "min") /\ isNumber
            THEN Check(s4, TRUE, Gte(validate.value, validate.min),
                       MinMessage(validate.field, validate.min))
            ELSE s4
  IN s5

NoCall == [op |-> "none"]
NoRule == [field |-> "Title", value |-> [type |-> "string", chars |-> <<>>]]
NoResult == [computed |-> FALSE]

\* ------------------------------------------------------------ ProjectForm
TitleMinLength == 5
DescriptionMinLength == 10
PeopleMax == 5
PeopleMin == 1

\* The three inputs, empty.
NoForm == [title |-> <<>>, description |-> <<>>, people |-> <<>>]

IsDigit(c) == \E d \in 1..10 : DigitChar[d] = c
DigitValue(c) == (CHOOSE d \in 1..10 : DigitChar[d] = c) - 1
AllDigits(s) == s # <<>> /\ \A i \in 1..Len(s) : IsDigit(s[i])

RECURSIVE ParseDigits(_)
ParseDigits(s) ==
  IF s = <<>> THEN 0
  ELSE ParseDigits(SubSeq(s, 1, Len(s) - 1)) * 10 + DigitValue(s[Len(s)])

\* Unary plus on a string (StringToNumber): whitespace is trimmed, the empty
\* string is 0, a decimal literal is its value, anything else is NaN. Of the
\* fractions only ".5" is represented.
ToNumber(str) ==
  LET s == trim(str)
      n == Len(s)
  IN IF s = <<>> THEN Num(0)
     ELSE IF AllDigits(s) THEN Num(ParseDigits(s))
     ELSE IF Head(s) = "-" /\ AllDigits(Tail(s)) THEN Num(-ParseDigits(Tail(s)))
     ELSE IF n >= 3 /\ s[n - 1] = "." /\ s[n] = "5" /\ AllDigits(SubSeq(s, 1, n - 2))
       THEN Half(ParseDigits(SubSeq(s, 1, n - 2)))
     ELSE NaN

\* Faulty variant of validateInputs: the people rule is never consulted.
validateInputs_noPeople(f) ==
  LET enteredTitle == f.title
      enteredDesc == f.description
      enteredPeople == f.people
      validateTitle == [value |-> Str(enteredTitle), required |-> TRUE,
                        minLength |-> TitleMinLength, field |-> "Title"]
      validateDesc == [value |-> Str(enteredDesc), required |-> TRUE,
                       minLength |-> DescriptionMinLength, field |-> "Description"]
  IN IF ~validatedInput(validateTitle).isValid
     THEN [isArray |-> FALSE, alerts |-> <<validatedInput(validateTitle).message>>]
     ELSE IF ~validatedInput(validateDesc).isValid
     THEN [isArray |-> FALSE, alerts |-> <<validatedInput(validateDesc).message>>]
     ELSE [isArray |-> TRUE, alerts |-> <<>>,
           values |-> <<enteredTitle, enteredDesc, ToNumber(enteredPeople)>>]

\* Faulty variant of validateInputs: the description rule is tested before the title rule.
validateInputs_descFirst(f) ==
  LET enteredTitle == f.title
      enteredDesc == f.description
      enteredPeople == f.people
      validateTitle == [value |-> Str(enteredTitle), required |-> TRUE,
                        minLength |-> TitleMinLength, field |-> "Title"]
      validateDesc == [value |-> Str(enteredDesc), required |-> TRUE,
                       minLength |-> DescriptionMinLength, field |-> "Description"]
      validatePeole == [value |-> ToNumber(enteredPeople), required |-> TRUE,
                        max |-> PeopleMax, min |-> PeopleMin, field |-> "People"]
  IN IF ~validatedInput(validateDesc).isValid
     THEN [isArray |-> FALSE, alerts |-> <<validatedInput(validateDesc).message>>]
     ELSE IF ~validatedInput(validateTitle).isValid
     THEN [isArray |-> FALSE, alerts |-> <<validatedInput(validateTitle).message>>]
     ELSE IF ~validatedInput(validatePeole).isValid
     THEN [isArray |-> FALSE, alerts |-> <<validatedInput(validatePeole).message>>]
     ELSE [isArray |-> TRUE, alerts |-> <<>>,
           values |-> <<enteredTitle, enteredDesc, ToNumber(enteredPeople)>>]

\* ProjectForm.validateInputs: the tuple of the entered values, or nothing
\* after one alert.
validateInputs(f) ==
  LET enteredTitle == f.title
      enteredDesc == f.description
      enteredPeople == f.people
      validateTitle == [value |-> Str(enteredTitle), required |-> TRUE,
                        minLength |-> TitleMinLength, field |-> "Title"]
      validateDesc == [value |-> Str(enteredDesc), required |-> TRUE,
                       minLength |-> DescriptionMinLength, field |-> "Description"]
      validatePeole == [value |-> ToNumber(enteredPeople), required |-> TRUE,
                        max |-> PeopleMax, min |-> PeopleMin, field |-> "People"]
  IN IF ~validatedInput(validateTitle).isValid
     THEN [isArray |-> FALSE, alerts |-> <<validatedInput(validateTitle).message>>]
     ELSE IF ~validatedInput(validateDesc).isValid
     THEN [isArray |-> FALSE, alerts |-> <<validatedInput(validateDesc).message>>]
     ELSE IF ~validatedInput(validatePeole).isValid
     THEN [isArray |-> FALSE, alerts |-> <<validatedInput(validatePeole).message>>]
     ELSE [isArray |-> TRUE, alerts |-> <<>>,
           values |-> <<enteredTitle, enteredDesc, ToNumber(enteredPeople)>>]

\* An event handler that makes no call to the store.
NoStoreCall ==
  /\ lastCall' = NoCall
  /\ repeated' = FALSE
  /\ notified' = <<>>
  /\ UNCHANGED <<heap, projects, listeners, lists, held, rule, result>>

clearInput == form' = NoForm

getInputValues(typed) ==
  LET inputValues == validateInputs(typed)
  IN /\ alerts' = inputValues.alerts
     /\ IF inputValues.isArray
        THEN /\ addProject(inputValues.values[1], inputValues.values[2],
                           inputValues.values[3])
             /\ clearInput
        ELSE /\ NoStoreCall
             /\ form' = typed

\* The submit event, with what the three inputs hold when it fires.
handleSubmit(title, description, people) ==
  /\ drag.phase = "idle"
  /\ getInputValues([title |-> title, description |-> description, people |-> people])
  /\ lastEvent' = [type |-> "submit", target |-> 0,
                   input |-> [title |-> title, description |-> description,
                              people |-> people]]
  /\ UNCHANGED <<drag, droppable>>

\* ------------------------------------------------------------ drag and drop
NoDrag == [phase |-> "idle", source |-> 0, types |-> <<>>, data |-> <<>>,
           effectAllowed |-> "none", over |-> 0, accepted |-> FALSE]

\* Drags that start outside the project items: their types, text and effect.
ForeignPayloads ==
  {[types |-> <<"text/plain">>, data |-> NumberToString(1), effectAllowed |-> "copy"],
   [types |-> <<"text/plain">>, data |-> <<"x">>, effectAllowed |-> "link"],
   [types |-> <<"text/html", "text/plain">>, data |-> NumberToString(1),
    effectAllowed |-> "copy"]}

\* DataTransfer.getData: '' when the drag carries no data of the format.
getData(dt, format) ==
  IF \E i \in 1..Len(dt.types) : dt.types[i] = format THEN dt.data ELSE <<>>

\* ProjectItem.handleDragStart on the k-th item rendered in list l.
handleDragStart(l, k) ==
  /\ drag.phase = "idle"
  /\ l \in 1..Len(lists)
  /\ k \in 1..Len(lists[l].assignedProjects)
  /\ LET project == lists[l].assignedProjects[k]
     IN drag' = [phase |-> "dragging", source |-> project,
                 types |-> <<"text/plain">>, data |-> heap[project].id,
                 effectAllowed |-> "move", over |-> 0, accepted |-> FALSE]
  /\ NoStoreCall
  /\ lastEvent' = [type |-> "dragstart", target |-> l]
  /\ UNCHANGED <<form, alerts, droppable>>

\* A drag that starts elsewhere (selected text, another application).
ForeignDragStart(payload) ==
  /\ drag.phase = "idle"
  /\ drag' = [phase |-> "dragging", source |-> 0, types |-> payload.types,
              data |-> payload.data, effectAllowed |-> payload.effectAllowed,
              over |-> 0, accepted |-> FALSE]
  /\ NoStoreCall
  /\ lastEvent' = [type |-> "foreigndragstart", target |-> 0]
  /\ UNCHANGED <<form, alerts, droppable>>

\* Faulty variant of handleDragOver: hovering already moves the project.
handleDragOver_moves(l) ==
  /\ drag.phase = "dragging"
  /\ l \in 1..Len(lists)
  /\ drag.over \in {0, l}
  /\ IF drag.types # <<>> /\ drag.types[1] = "text/plain"
     THEN /\ drag' = [drag EXCEPT !.over = l, !.accepted = TRUE]
          /\ droppable' = [droppable EXCEPT ![l] = TRUE]
          /\ moveProject(getData(drag, "text/plain"),
                         IF lists[l].type = "active" THEN Active ELSE Finished)
     ELSE /\ drag' = [drag EXCEPT !.over = l, !.accepted = FALSE]
          /\ UNCHANGED droppable
          /\ NoStoreCall
  /\ lastEvent' = [type |-> "dragover", target |-> l]
  /\ UNCHANGED <<form, alerts>>

\* Faulty variant of handleDragOver: the type of the payload is not looked at.
handleDragOver_anyType(l) ==
  /\ drag.phase = "dragging"
  /\ l \in 1..Len(lists)
  /\ drag.over \in {0, l}
  /\ drag' = [drag EXCEPT !.over = l, !.accepted = TRUE]
  /\ droppable' = [droppable EXCEPT ![l] = TRUE]
  /\ NoStoreCall
  /\ lastEvent' = [type |-> "dragover", target |-> l]
  /\ UNCHANGED <<form, alerts>>

\* ProjectList.handleDragOver on list l; preventDefault is what lets the
\* browser fire drop there.
handleDragOver(l) ==
  /\ drag.phase = "dragging"
  /\ l \in 1..Len(lists)
  /\ drag.over \in {0, l}
  /\ IF drag.types # <<>> /\ drag.types[1] = "text/plain"
     THEN /\ drag' = [drag EXCEPT !.over = l, !.accepted = TRUE]
          /\ droppable' = [droppable EXCEPT ![l] = TRUE]
     ELSE /\ drag' = [drag EXCEPT !.over = l, !.accepted = FALSE]
          /\ UNCHANGED droppable
  /\ NoStoreCall
  /\ lastEvent' = [type |-> "dragover", target |-> l]
  /\ UNCHANGED <<form, alerts>>

\* ProjectList.handleDragLeave on list l.
handleDragLeave(l) ==
  /\ drag.phase = "dragging"
  /\ drag.over = l
  /\ droppable' = [droppable EXCEPT ![l] = FALSE]
  /\ drag' = [drag EXCEPT !.over = 0, !.accepted = FALSE]
  /\ NoStoreCall
  /\ lastEvent' = [type |-> "dragleave", target |-> l]
  /\ UNCHANGED <<form, alerts>>

\* ProjectList.handleDragDrop on list l; the browser fires drop only where the
\* last dragover was accepted.
handleDragDrop(l) ==
  /\ drag.phase = "dragging"
  /\ drag.over = l
  /\ drag.accepted
  /\ LET prjId == getData(drag, "text/plain")
     IN moveProject(prjId, IF lists[l].type = "active" THEN Active ELSE Finished)
  /\ drag' = [drag EXCEPT !.phase = "dropped"]
  /\ lastEvent' = [type |-> "drop", target |-> l]
  /\ UNCHANGED <<form, alerts, droppable>>

\* The drag is given up (Escape, or released where no drop is accepted): the
\* browser fires dragleave at the list hovered, if any.
CancelDrag ==
  /\ drag.phase = "dragging"
  /\ droppable' = IF drag.over # 0 THEN [droppable EXCEPT ![drag.over] = FALSE]
                  ELSE droppable
  /\ drag' = [drag EXCEPT !.phase = "cancelled", !.over = 0, !.accepted = FALSE]
  /\ NoStoreCall
  /\ lastEvent' = [type |-> "cancel", target |-> drag.over]
  /\ UNCHANGED <<form, alerts>>

\* dragend, after the drop or the cancellation; ProjectItem.handleDragEnd only logs.
handleDragEnd ==
  /\ drag.phase \in {"dropped", "cancelled"}
  /\ drag' = NoDrag
  /\ NoStoreCall
  /\ lastEvent' = [type |-> "dragend", target |-> 0]
  /\ UNCHANGED <<form, alerts, droppable>>

NoEvent == [type |-> "none", target |-> 0]

Init ==
  /\ heap = <<>>
  /\ projects = <<>>
  /\ listeners = <<>>
  /\ lists = <<>>
  /\ notified = <<>>
  /\ lastCall = NoCall
  /\ repeated = FALSE
  /\ held = NoSnapshot
  /\ rule = NoRule
  /\ result = NoResult
  /\ form = NoForm
  /\ alerts = <<>>
  /\ drag = NoDrag
  /\ droppable = <<>>
  /\ lastEvent = NoEvent

Next ==
  \/ \E type \in ListTypes : NewProjectList(type)
  \/ \E title \in TitleArgs, description \in DescriptionArgs, n \in PeopleArgs :
       addProject(title, description, n) /\ UNCHANGED uiVars
  \/ \E projectId \in ProjectIds, newStatus \in ProjectStatus :
       moveProject(projectId, newStatus) /\ UNCHANGED uiVars

Spec == Init /\ [][Next]_vars

\* The validator on its own: any rule, one application.
Validate ==
  /\ result = NoResult
  /\ result' = validatedInput(rule)
  /\ UNCHANGED <<rule, heap, projects, listeners, lists, notified, lastCall, repeated, held>>
  /\ UNCHANGED uiVars

InitValidate ==
  /\ heap = <<>>
  /\ projects = <<>>
  /\ listeners = <<>>
  /\ lists = <<>>
  /\ notified = <<>>
  /\ lastCall = NoCall
  /\ repeated = FALSE
  /\ held = NoSnapshot
  /\ rule \in Rules
  /\ result = NoResult
  /\ form = NoForm
  /\ alerts = <<>>
  /\ drag = NoDrag
  /\ droppable = <<>>
  /\ lastEvent = NoEvent

NextValidate == Validate

SpecValidate == InitValidate /\ [][NextValidate]_vars

\* ------------------------------------------------------------ the page
Rep(c, n) == [i \in 1..n |-> c]

\* What the user may have typed when the form is submitted.
FormTitles ==
  {<<>>, Rep(" ", TitleMinLength), Rep("a", TitleMinLength - 1), Rep("a", TitleMinLength)}
FormDescriptions ==
  {Rep(" ", DescriptionMinLength), Rep("a", DescriptionMinLength - 1),
   Rep("a", DescriptionMinLength)}
FormPeople == {<<>>, <<"1">>, <<"5">>, <<"6">>, <<"2", ".", "5">>, <<"a">>}

\* The state when the script has run: the form and the two lists are built,
\* the lists' listeners are registered, active first.
InitApp ==
  /\ heap = <<>>
  /\ projects = <<>>
  /\ listeners = <<1, 2>>
  /\ lists = <<[type |-> "active", assignedProjects |-> <<>>],
               [type |-> "finished", assignedProjects |-> <<>>]>>
  /\ notified = <<>>
  /\ lastCall = NoCall
  /\ repeated = FALSE
  /\ held = NoSnapshot
  /\ rule = NoRule
  /\ result = NoResult
  /\ form = NoForm
  /\ alerts = <<>>
  /\ drag = NoDrag
  /\ droppable = <<FALSE, FALSE>>
  /\ lastEvent = NoEvent

\* The form on its own: every submit.
NextForm ==
  \E title \in FormTitles, description \in FormDescriptions, people \in FormPeople :
    handleSubmit(title, description, people)

SpecForm == InitApp /\ [][NextForm]_vars

\* The page: submits of one accepted and one rejected form, and every drag event.
AppTitles == {Rep("a", TitleMinLength - 1), Rep("a", TitleMinLength)}
AppDescriptions == {Rep("a", DescriptionMinLength)}
AppPeople == {<<"1">>}

NextApp ==
  \/ \E title \in AppTitles, description \in AppDescriptions, people \in AppPeople :
       handleSubmit(title, description, people)
  \/ \E l \in 1..2, k \in 1..MaxProjects : handleDragStart(l, k)
  \/ \E payload \in ForeignPayloads : ForeignDragStart(payload)
  \/ \E l \in 1..2 : handleDragOver(l)
  \/ \E l \in 1..2 : handleDragLeave(l)
  \/ \E l \in 1..2 : handleDragDrop(l)
  \/ CancelDrag
  \/ handleDragEnd

SpecApp == InitApp /\ [][NextApp]_vars

\* ------------------------------------------------------------ properties
IdInStore(ps, h, id) == \E i \in 1..Len(ps) : h[ps[i]].id = id

\* The project an id designates: the first stored project carrying it.
Designated(ps, h, id) ==
  ps[CHOOSE i \in 1..Len(ps) :
       /\ h[ps[i]].id = id
       /\ \A j \in 1..(i - 1) : h[ps[j]].id # id]

InvokedOnce(log, lsnrs) ==
  /\ Len(log) = Len(lsnrs)
  /\ \A i \in 1..Len(lsnrs) :
       Cardinality({k \in 1..Len(log) : log[k].listener = lsnrs[i]}) = 1

Contains(items, p) == \E i \in 1..Len(items) : items[i] = p

IsMove(call) == call.op = "moveProject"
IsAdd(call) == call.op = "addProject"

\* C1: moveProject(id, S) on a stored id whose project has another status sets
\* that project's status to S, changes no other project, and invokes every
\* registered listener exactly once with a snapshot showing the project with S.
C1_MoveSetsStatus ==
  [][(/\ IsMove(lastCall')
      /\ IdInStore(projects, heap, lastCall'.projectId)
      /\ heap[Designated(projects, heap, lastCall'.projectId)].status # lastCall'.newStatus)
     => LET p == Designated(projects, heap, lastCall'.projectId)
            S == lastCall'.newStatus
        IN /\ heap'[p] = [heap[p] EXCEPT !.status = S]
           /\ Len(heap') = Len(heap)
           /\ \A q \in 1..Len(heap) : q # p => heap'[q] = heap[q]
           /\ projects' = projects
           /\ InvokedOnce(notified', listeners)
           /\ \A k \in 1..Len(notified') :
                /\ Contains(notified'[k].items, p)
                /\ Deref(notified'[k].items, heap') = Deref(projects', heap')
                /\ heap'[p].status = S]_vars

C1_Witness ==
  /\ IsMove(lastCall)
  /\ Len(projects) >= 2
  /\ Len(listeners) >= 2
  /\ Len(notified) = Len(listeners)
  /\ IdInStore(projects, heap, lastCall.projectId)
  /\ heap[Designated(projects, heap, lastCall.projectId)].status = lastCall.newStatus

\* C2: moveProject(id, S) with S the project's current status changes nothing
\* in the store and invokes no listener; a moveProject call that repeats the
\* call before it leaves the store as the first call left it and notifies nobody.
C2_MoveSameStatusNoOp ==
  [][/\ (/\ IsMove(lastCall')
         /\ IdInStore(projects, heap, lastCall'.projectId)
         /\ heap[Designated(projects, heap, lastCall'.projectId)].status = lastCall'.newStatus)
        => (heap' = heap /\ projects' = projects /\ lists' = lists /\ notified' = <<>>)
     /\ (IsMove(lastCall') /\ lastCall' = lastCall)
        => (heap' = heap /\ projects' = projects /\ lists' = lists /\ notified' = <<>>)]_vars

C2_Witness ==
  /\ IsMove(lastCall)
  /\ repeated
  /\ Len(listeners) >= 1
  /\ IdInStore(projects, heap, lastCall.projectId)
  /\ heap[Designated(projects, heap, lastCall.projectId)].status = lastCall.newStatus
  /\ notified = <<>>

\* C3: moveProject with an id carried by no stored project, whatever the status
\* and the store's contents, leaves the collection unchanged and invokes no listener.
C3_MoveUnknownIdNoOp ==
  [][(IsMove(lastCall') /\ ~IdInStore(projects, heap, lastCall'.projectId))
     => /\ heap' = heap
        /\ projects' = projects
        /\ lists' = lists
        /\ held' = held
        /\ notified' = <<>>]_vars

C3_Witness ==
  /\ IsMove(lastCall)
  /\ ~IdInStore(projects, heap, lastCall.projectId)
  /\ Len(projects) >= 1
  /\ Len(listeners) >= 1
  /\ heap[projects[1]].status # lastCall.newStatus
  /\ notified = <<>>

\* C4: addProject appends exactly one new project with the given title,
\* description and people count and status Active at the end of the sequence,
\* leaves the stored projects and their order unchanged, and invokes every
\* registered listener once with a snapshot containing the new entry.
C4_AddAppendsActive ==
  [][IsAdd(lastCall')
     => LET n == Len(projects)
            new == projects'[n + 1]
        IN /\ Len(projects') = n + 1
           /\ SubSeq(projects', 1, n) = projects
           /\ ~Contains(projects, new)
           /\ \A i \in 1..n : heap'[projects[i]] = heap[projects[i]]
           /\ heap'[new].title = lastCall'.title
           /\ heap'[new].description = lastCall'.description
           /\ heap'[new].people = lastCall'.numOfPeople
           /\ heap'[new].status = Active
           /\ InvokedOnce(notified', listeners)
           /\ \A k \in 1..Len(notified') :
                /\ notified'[k].items = projects'
                /\ Contains(notified'[k].items, new)]_vars

C4_Witness ==
  /\ IsAdd(lastCall)
  /\ Len(projects) >= 2
  /\ Len(listeners) >= 2
  /\ Len(notified) = Len(listeners)
  /\ heap[projects[1]].status = Finished
  /\ heap[projects[Len(projects)]].status = Active

\* C5: no two projects in the store have the same id.
C5_UniqueIds ==
  \A i, j \in 1..Len(projects) :
    i # j => heap[projects[i]].id # heap[projects[j]].id

\* C6: a snapshot handed to a listener keeps showing what it showed when it was
\* delivered, whatever addProject and moveProject calls follow.
C6_SnapshotIsCopy == held.set => Deref(held.items, heap) = held.seen

\* C7: on every addProject and every status-changing moveProject the listeners
\* registered so far are invoked in registration order, each exactly once, each
\* with the full project list as it is after the mutation, within the call.
C7_NotifyInRegistrationOrder ==
  [][(\/ IsAdd(lastCall')
      \/ /\ IsMove(lastCall')
         /\ IdInStore(projects, heap, lastCall'.projectId)
         /\ heap[Designated(projects, heap, lastCall'.projectId)].status # lastCall'.newStatus)
     => /\ Len(notified') = Len(listeners)
        /\ \A i \in 1..Len(listeners) :
             /\ notified'[i].listener = listeners[i]
             /\ notified'[i].items = projects'
        /\ listeners' = listeners]_vars

C7_Witness ==
  /\ IsMove(lastCall)
  /\ Len(listeners) >= 2
  /\ Len(notified) = 2
  /\ notified[1].listener = listeners[1]
  /\ notified[2].listener = listeners[2]
  /\ notified[1].listener # notified[2].listener
  /\ Len(notified[2].items) >= 1

Computed == result # NoResult

IsText(v) == v.type = "string"
IsNumeric(v) == v.type = "number"

\* Empty or whitespace-only text.
Blank(v) == IsText(v) /\ \A i \in 1..Len(v.chars) : v.chars[i] = " "

\* C8: a rule with required = true whose value is the empty string or
\* whitespace-only text is invalid, with a message naming the field and saying
\* that it is required.
C8_RequiredBlankRejected ==
  (/\ Computed
   /\ "required" \in DOMAIN rule
   /\ rule.required
   /\ Blank(rule.value))
  => /\ ~result.isValid
     /\ Len(result.message) >= 2
     /\ result.message[1] = rule.field
     /\ result.message[2] = "field is required"

\* The checks of a rule that themselves fail, in the order presence, maxLength,
\* minLength, max, min.
FailsPresence(r) == Blank(r.value) /\ r.value.chars # <<>>
FailsMaxLength(r) ==
  "maxLength" \in DOMAIN r /\ IsText(r.value) /\ Len(r.value.chars) > r.maxLength
FailsMinLength(r) ==
  "minLength" \in DOMAIN r /\ IsText(r.value) /\ Len(r.value.chars) < r.minLength
FailsMax(r) ==
  "max" \in DOMAIN r /\ IsNumeric(r.value) /\ (r.value.nan \/ r.value.num > r.max)
FailsMin(r) ==
  "min" \in DOMAIN r /\ IsNumeric(r.value) /\ (r.value.nan \/ r.value.num < r.min)

LastFailingMessage(r) ==
  IF FailsMin(r) THEN <<r.field, "field most not be less than", r.min, "numbers">>
  ELSE IF FailsMax(r) THEN <<r.field, "field most not be more than", r.max, "numbers">>
  ELSE IF FailsMinLength(r)
    THEN <<r.field, "field most not be less than", r.minLength, "characters">>
  ELSE IF FailsMaxLength(r)
    THEN <<r.field, "field most not be more than", r.maxLength, "characters">>
  ELSE IF FailsPresence(r) THEN <<r.field, "field is required">>
  ELSE <<>>

\* C9: for every rule found invalid, the returned message is the message of the
\* last check, in the order presence, maxLength, minLength, max, min, that
\* itself failed.
C9_LastFailingCheckMessage ==
  (Computed /\ ~result.isValid) => result.message = LastFailingMessage(rule)

\* Every constraint the rule gives and that applies to its value is satisfied.
AllSatisfied(r) ==
  /\ ("required" \in DOMAIN r /\ r.required) => ~Blank(r.value)
  /\ ~FailsMaxLength(r)
  /\ ~FailsMinLength(r)
  /\ ~FailsMax(r)
  /\ ~FailsMin(r)

\* C10: a rule whose applicable constraints are all satisfied (or that gives
\* none) is valid with the empty message, and a text shorter than minLength is
\* invalid with the message citing that minLength.
C10_SatisfiedRuleValid ==
  Computed =>
    /\ AllSatisfied(rule) => (result.isValid /\ result.message = <<>>)
    /\ FailsMinLength(rule)
       => /\ ~result.isValid
          /\ result.message =
               <<rule.field, "field most not be less than", rule.minLength, "characters">>

\* ------------------------------------------------------------ the form
NotBlank(t) == \E i \in 1..Len(t) : t[i] # " "

TitleRuleHolds(t) == NotBlank(t) /\ Len(t) >= 5
DescriptionRuleHolds(d) == NotBlank(d) /\ Len(d) >= 10
PeopleRuleHolds(p) ==
  LET n == ToNumber(p)
  IN /\ ~n.nan
     /\ n.num >= 1
     /\ (n.num < 5 \/ (n.num = 5 /\ ~n.half))

AllRulesHold(in) ==
  /\ TitleRuleHolds(in.title)
  /\ DescriptionRuleHolds(in.description)
  /\ PeopleRuleHolds(in.people)

IsSubmit(e) == e.type = "submit"

\* C11: a submit reaches addProject, once and with the entered title,
\* description and people count, exactly when the title rule, the description
\* rule and the people rule all hold; a rejected submit leaves the project list
\* unchanged and notifies no listener.
C11_AddIffAllRulesHold ==
  [][IsSubmit(lastEvent')
     => LET in == lastEvent'.input
        IN IF AllRulesHold(in)
           THEN /\ lastCall' = [op |-> "addProject", title |-> in.title,
                                description |-> in.description,
                                numOfPeople |-> ToNumber(in.people)]
                /\ Len(projects') = Len(projects) + 1
                /\ heap'[projects'[Len(projects')]].title = in.title
                /\ heap'[projects'[Len(projects')]].description = in.description
                /\ heap'[projects'[Len(projects')]].people = ToNumber(in.people)
           ELSE /\ lastCall' = NoCall
                /\ projects' = projects
                /\ heap' = heap
                /\ lists' = lists
                /\ notified' = <<>>]_vars

C11_Witness ==
  /\ IsSubmit(lastEvent)
  /\ lastEvent.input.title = <<"a", "a", "a", "a">>
  /\ lastCall = NoCall
  /\ Len(projects) >= 1
  /\ notified = <<>>
  /\ alerts # <<>>

TitleRule(in) ==
  [value |-> Str(in.title), required |-> TRUE, minLength |-> 5, field |-> "Title"]
DescriptionRule(in) ==
  [value |-> Str(in.description), required |-> TRUE, minLength |-> 10,
   field |-> "Description"]
PeopleRule(in) ==
  [value |-> ToNumber(in.people), required |-> TRUE, max |-> 5, min |-> 1,
   field |-> "People"]

FirstInvalidRule(in) ==
  IF ~TitleRuleHolds(in.title) THEN TitleRule(in)
  ELSE IF ~DescriptionRuleHolds(in.description) THEN DescriptionRule(in)
  ELSE PeopleRule(in)

\* C12: on a submit with at least one invalid rule exactly one message is
\* surfaced, the message of the first invalid rule in the order title,
\* description, people, whatever the later rules are.
C12_FirstInvalidRuleAlerted ==
  [][(IsSubmit(lastEvent') /\ ~AllRulesHold(lastEvent'.input))
     => /\ Len(alerts') = 1
        /\ alerts'[1] = validatedInput(FirstInvalidRule(lastEvent'.input)).message
        /\ alerts'[1][1] = FirstInvalidRule(lastEvent'.input).field]_vars

C12_Witness ==
  /\ IsSubmit(lastEvent)
  /\ ~TitleRuleHolds(lastEvent.input.title)
  /\ ~DescriptionRuleHolds(lastEvent.input.description)
  /\ ~PeopleRuleHolds(lastEvent.input.people)
  /\ Len(alerts) = 1
  /\ alerts[1][1] = "Title"

\* ------------------------------------------------------------ the drag protocol
DragOnlyEvents ==
  {"dragstart", "foreigndragstart", "dragover", "dragleave", "cancel", "dragend"}

\* C13: drag start, drag over, drag leave, the cancellation and drag end leave
\* the project collection unchanged and notify no listener; a status changes
\* only in a drop.
C13_OnlyDropMoves ==
  [][/\ lastEvent'.type \in DragOnlyEvents
        => /\ heap' = heap
           /\ projects' = projects
           /\ lists' = lists
           /\ notified' = <<>>
           /\ lastCall' = NoCall
     /\ (\E p \in 1..Len(heap) : heap'[p].status # heap[p].status)
        => lastEvent'.type = "drop"]_vars

C13_Witness ==
  /\ lastEvent.type = "cancel"
  /\ lastEvent.target # 0
  /\ drag.source # 0
  /\ drag.phase = "cancelled"
  /\ heap[drag.source].status = Active
  /\ notified = <<>>

TargetStatus(l) == IF lists[l].type = "finished" THEN Finished ELSE Active

\* C14: a drag started on the item of a project and dropped on a list calls
\* moveProject once with that project's id and the list's status; the id is in
\* the store; the dragged project then has the list's status, and a drop on the
\* list it is already in changes nothing.
C14_DropMovesDraggedProject ==
  [][(lastEvent'.type = "drop" /\ drag.source # 0)
     => LET l == lastEvent'.target
            X == heap[drag.source].id
        IN /\ lastCall' = [op |-> "moveProject", projectId |-> X,
                           newStatus |-> TargetStatus(l)]
           /\ IdInStore(projects, heap, X)
           /\ heap'[drag.source].status = TargetStatus(l)
           /\ heap[drag.source].status = TargetStatus(l)
              => (heap' = heap /\ notified' = <<>>)]_vars

Matches(dt) == dt.types # <<>> /\ dt.types[1] = "text/plain"

\* C15: a drag over a list puts it in the droppable state and is accepted
\* exactly when the first type of the payload is text/plain; while a payload of
\* another type is dragged no list becomes droppable, no drop happens and
\* moveProject is not called.
C15_OnlyPlainTextAccepted ==
  [][/\ lastEvent'.type = "dragover"
        => /\ drag'.accepted <=> Matches(drag)
           /\ Matches(drag) => droppable'[lastEvent'.target]
           /\ ~Matches(drag) => droppable' = droppable
     /\ (drag.phase = "dragging" /\ ~Matches(drag))
        => /\ lastEvent'.type # "drop"
           /\ lastCall' = NoCall
           /\ \A l \in 1..Len(droppable) : droppable'[l] => droppable[l]]_vars

C15_Witness ==
  /\ lastEvent.type = "dragover"
  /\ drag.types = <<"text/html", "text/plain">>
  /\ ~drag.accepted
  /\ ~droppable[lastEvent.target]
  /\ IdInStore(projects, heap, drag.data)

\* C16: a drag started from a project item allows the effect move only, and no
\* drop whose effect is copy or link results in a moveProject call or a status
\* change.
C16_CopyDropRejected ==
  [][/\ lastEvent'.type = "dragstart" => drag'.effectAllowed = "move"
     /\ (lastEvent'.type = "drop" /\ drag.effectAllowed \in {"copy", "link"})
        => (lastCall' = NoCall /\ heap' = heap)]_vars

\* C17: no step loses or reorders a stored project or changes its id, title,
\* description or people count; only the status of a stored project changes,
\* and the store never shrinks.
C17_OnlyStatusChanges ==
  [][/\ Len(projects') >= Len(projects)
     /\ SubSeq(projects', 1, Len(projects)) = projects
     /\ \A i \in 1..Len(projects) :
          LET p == projects[i]
          IN heap'[p] = [heap[p] EXCEPT !.status = heap'[p].status]]_vars

C17_Witness ==
  /\ lastEvent.type = "drop"
  /\ Len(projects) >= 2
  /\ notified # <<>>
  /\ heap[projects[1]].status = Active
  /\ heap[projects[2]].status = Finished

\* C18: after every event the active list's assignedProjects is the store's
\* Active projects and the finished list's the Finished ones, in store order.
C18_ListsMirrorStore ==
  \A l \in 1..Len(lists) :
    lists[l].assignedProjects =
      SelectSeq(projects, LAMBDA p : heap[p].status = TargetStatus(l))

C18_Witness ==
  /\ lastEvent.type = "drop"
  /\ notified # <<>>
  /\ Len(lists[1].assignedProjects) = 1
  /\ Len(lists[2].assignedProjects) = 1

\* C19: every stored project has a title of at least 5 characters and a
\* description of at least 10, neither whitespace-only, and a people count
\* that is an integer between 1 and 5.
C19_StoredProjectsValid ==
  \A i \in 1..Len(projects) :
    LET p == heap[projects[i]]
    IN /\ NotBlank(p.title) /\ Len(p.title) >= 5
       /\ NotBlank(p.description) /\ Len(p.description) >= 10
       /\ ~p.people.nan /\ ~p.people.half
       /\ p.people.num >= 1 /\ p.people.num <= 5

\* C20: when the drag has ended and the protocol is idle again, no list is in
\* the droppable state.
C20_IdleNotDroppable ==
  drag.phase = "idle" => \A l \in 1..Len(droppable) : ~droppable[l]

====
